---- MODULE Spec2Model ----
(***************************************************************************)
(* Weather acquisition of WeatherClock Pi: the refresh timer of            *)
(* WeatherClockApp (gui/display.py), the fetch-with-retry loop, parser,    *)
(* cache and fallback of WeatherService (services/weather.py), and the     *)
(* location lookup of LocationService (services/location.py).              *)
(*                                                                         *)
(* Conventions.  A Python dict is a TLA+ function whose DOMAIN is the set  *)
(* of keys ({} is the function with empty domain).  Python's None is the   *)
(* record None where a dict or object is expected and the number NoneNum   *)
(* where a number or a time is expected.  A call that may raise returns    *)
(* Ok(v) or Raise(e, m).  Wall-clock time `now` is in milliseconds; the    *)
(* arguments of time.sleep are recorded in seconds, as the code passes     *)
(* them.                                                                   *)
(***************************************************************************)
EXTENDS Integers, Sequences, FiniteSets, TLC

\* ---------------------------------------------------------------- bounds
MaxCycles == 3          \* _update_weather invocations explored
MaxCode == 99           \* largest consecutive WMO code classified
MaxDays == 6            \* longest daily array parsed
MaxCalls == 2           \* get_weather_safe calls made on a service used directly

\* ------------------------------------------------------- program constants
MAX_RETRIES == 3
RETRY_DELAYS_TwoEntries == <<5, 15>>
RETRY_DELAYS == <<5, 15, 45>>
weather_interval == 900      \* RefreshConfig's default
forecast_timeout == 30       \* RefreshConfig's default
InitialDelayMs == 100

\* ------------------------------------------------------------ Python values
None == [py |-> "None"]
NoneNum == 0 - 999
EmptyDict == [k \in {} |-> 0]

Ok(v) == [exc |-> "", val |-> v]
Raise(e, m) == [exc |-> e, msg |-> m]

\* d.get(k, default)
Get(d, k, default) == IF k \in DOMAIN d THEN d[k] ELSE default

\* truth value of a dict-or-None, as `if d:` tests it
Truthy(d) == d # None /\ DOMAIN d # {}

Max(a, b) == IF a >= b THEN a ELSE b

\* ------------------------------------------------------ models/weather_data
SUNNY_CODES == {0, 1}
CLOUDY_CODES == {2, 3, 45, 48}
SNOW_CODES == {71, 73, 75, 77, 85, 86}

from_wmo_code_NoSnow(code) ==
    IF code \in SUNNY_CODES THEN "sunny"
    ELSE IF code \in CLOUDY_CODES THEN "cloudy"
    ELSE "rain"
from_wmo_code(code) ==
    IF code \in SUNNY_CODES THEN "sunny"
    ELSE IF code \in CLOUDY_CODES THEN "cloudy"
    ELSE IF code \in SNOW_CODES THEN "snow"
    ELSE "rain"

\* A date string is modelled by a day number: n >= 1 is the ISO text of day
\* n, NoneNum is a JSON null (not a str at all), anything else is text
\* date.fromisoformat rejects.
fromisoformat(s) ==
    IF s = NoneNum THEN Raise("TypeError", "fromisoformat: argument must be str")
    ELSE IF s >= 1 THEN Ok(s)
    ELSE Raise("ValueError", "Invalid isoformat string")

DayNames == <<"Monday", "Tuesday", "Wednesday", "Thursday", "Friday", "Saturday", "Sunday">>
strftimeA(d) == DayNames[(d % 7) + 1]

from_data(forecast_date, weather_code, high_temp, low_temp) ==
    [date |-> forecast_date,
     day_name |-> strftimeA(forecast_date),
     high_temp |-> high_temp,
     low_temp |-> low_temp,
     condition |-> from_wmo_code(weather_code),
     weather_code |-> weather_code]

\* WeatherData.is_stale at time t; times are in ms, max_age_seconds in seconds
DefaultMaxAge == 900
is_stale_AtLeast(wd, t, max_age_seconds) == t - wd.last_updated >= max_age_seconds * 1000
is_stale(wd, t, max_age_seconds) == t - wd.last_updated > max_age_seconds * 1000

\* ------------------------------------------------- services/weather: parser
\* current_data["k"]: KeyError when the key is absent
_parse_current_weather(current_data, t) ==
    LET weather_code == Get(current_data, "weather_code", 0) IN
    IF "temperature_2m" \notin DOMAIN current_data
      THEN Raise("KeyError", "temperature_2m")
    ELSE IF "apparent_temperature" \notin DOMAIN current_data
      THEN Raise("KeyError", "apparent_temperature")
    ELSE Ok([temperature |-> current_data["temperature_2m"],
             feels_like |-> current_data["apparent_temperature"],
             condition |-> from_wmo_code(weather_code),
             weather_code |-> weather_code,
             humidity |-> Get(current_data, "relative_humidity_2m", NoneNum),
             timestamp |-> t,
             is_day |-> (Get(current_data, "is_day", 1) # 0)])

\* one iteration of the loop of _parse_daily_forecast: the entry for index i
\* (1-based here), or the exception the try block catches
ParseDay(dates, codes, highs, lows, i) ==
    LET d == fromisoformat(dates[i]) IN
    IF d.exc # "" THEN d
    ELSE IF i > Len(codes) \/ i > Len(highs) \/ i > Len(lows)
      THEN Raise("IndexError", "list index out of range")
    ELSE Ok(from_data(d.val, codes[i], highs[i], lows[i]))

\* except (IndexError, ValueError): the day is logged and skipped
Caught(r) == r.exc \in {"IndexError", "ValueError"}

\* the loop from index i on, with `forecasts` appended so far: the list it
\* ends with, or the exception that leaves it
RECURSIVE ParseDays(_, _, _, _, _, _, _)
ParseDays(dates, codes, highs, lows, i, n, forecasts) ==
    IF i > n THEN Ok(forecasts)
    ELSE LET r == ParseDay(dates, codes, highs, lows, i) IN
         IF r.exc = ""
           THEN ParseDays(dates, codes, highs, lows, i + 1, n, Append(forecasts, r.val))
         ELSE IF Caught(r)
           THEN ParseDays(dates, codes, highs, lows, i + 1, n, forecasts)
         ELSE r

\* range(min(len(dates), 5))
DayCount_NoCap(dates) == Len(dates)
DayCount(dates) == IF Len(dates) < 5 THEN Len(dates) ELSE 5

_parse_daily_forecast(daily) ==
    LET dates == Get(daily, "time", <<>>)
        codes == Get(daily, "weather_code", <<>>)
        highs == Get(daily, "temperature_2m_max", <<>>)
        lows == Get(daily, "temperature_2m_min", <<>>)
        n == DayCount(dates)
    IN ParseDays(dates, codes, highs, lows, 1, n, <<>>)

\* ----------------------------------------------- services/weather: fetching
WeatherData(current, forecast, location_name, last_updated) ==
    [current |-> current, forecast |-> forecast,
     location_name |-> location_name, last_updated |-> last_updated]

\* for attempt in range(MAX_RETRIES)
InRange_OneMore(a) == a < MAX_RETRIES + 1
InRange(a) == a < MAX_RETRIES

\* if attempt < MAX_RETRIES - 1: the failed attempt is followed by a sleep
WaitBeforeRetry_Always(a) == a < MAX_RETRIES
WaitBeforeRetry(a) == a < MAX_RETRIES - 1

\* delay = self.RETRY_DELAYS[attempt] (sequences are 1-based here)
DelayFor_NextEntry(a) == RETRY_DELAYS[a + 2]
DelayFor(a) == RETRY_DELAYS[a + 1]

\* self._cache = data; self._cache_time = datetime.now(), at time t
CacheAfterStore_IfEmpty(cache, data) == IF cache = None THEN data ELSE cache
CacheAfterStore(cache, data) == data
CacheTimeAfterStore_KeepFirst(cache_time, t) == IF cache_time = NoneNum THEN t ELSE cache_time
CacheTimeAfterStore(cache_time, t) == t

\* The try body of one attempt runs to `return data` unless requests.get,
\* raise_for_status or response.json raises; nothing in it looks into the
\* decoded body.
AttemptSucceeded_Validating(o) == o.kind = "ok" /\ "current" \in DOMAIN o.data
AttemptSucceeded(o) == o.kind = "ok"

\* str(e) of the exception an attempt raised; requests.Timeout has its own
\* except clause and fixed text
ErrorText(kind) == IF kind = "Timeout" THEN "Request timed out" ELSE kind

\* last_error after an attempt failed with an exception of this kind
RecordError_KeepFirst(prev, kind) == IF prev = "" THEN ErrorText(kind) ELSE prev
RecordError(prev, kind) == ErrorText(kind)

WeatherServiceError(last) ==
    Raise("WeatherServiceError", [attempts |-> MAX_RETRIES, last_error |-> last])

\* last_updated=self._cache_time or datetime.now()
FallbackTime_Now(cache_time, t) == t
FallbackTime(cache_time, t) == IF cache_time # NoneNum THEN cache_time ELSE t

\* A WeatherData returned by get_weather; `via` is the path taken ("cache"
\* is the one that logs "Using cached weather data").
Returned(wd, via) == [exc |-> "", val |-> wd, via |-> via]

\* get_weather once _make_request has returned or raised (mr), at time t:
\* the try body after the request, and the except WeatherServiceError branch
get_weather(mr, cache, cache_time, location_name, t) ==
    IF mr.exc = "" THEN
        LET current == _parse_current_weather(Get(mr.val, "current", EmptyDict), t)
            forecast == _parse_daily_forecast(Get(mr.val, "daily", EmptyDict))
        IN IF current.exc # "" THEN current
           ELSE IF forecast.exc # "" THEN forecast
           ELSE Returned(WeatherData(current.val, forecast.val, location_name, t), "fetch")
    ELSE IF mr.exc = "WeatherServiceError" THEN
        IF Truthy(cache) THEN
            LET current == _parse_current_weather(Get(cache, "current", EmptyDict), t)
                forecast == _parse_daily_forecast(Get(cache, "daily", EmptyDict))
            IN IF current.exc # "" THEN current
               ELSE IF forecast.exc # "" THEN forecast
               ELSE Returned(WeatherData(current.val, forecast.val, location_name,
                                         FallbackTime(cache_time, t)),
                             "cache")
        ELSE mr
    ELSE mr

get_weather_safe_NoCatch(gw) == gw
get_weather_safe(gw) ==
    IF gw.exc = "WeatherServiceError" THEN Ok(None) ELSE gw

has_cached_data_Truthy(cache) == Truthy(cache)
has_cached_data(cache) == cache # None

\* get_cache_age at time t, in ms
get_cache_age_Reversed(cache_time, t) ==
    IF cache_time # NoneNum THEN cache_time - t ELSE NoneNum
get_cache_age(cache_time, t) ==
    IF cache_time # NoneNum THEN t - cache_time ELSE NoneNum

\* ------------------------------------------------------- services/location
LocationInfo(lat, lon, name, tz) ==
    [latitude |-> lat, longitude |-> lon, name |-> name, timezone |-> tz]

\* what the IP geolocation call can come back with
DetectOutcomes == {None, LocationInfo(51, 0, "London, England", "Europe/London")}

\* get_location; `detected` is the result detect_location would give
get_location_CachedFirst(config_lat, config_lon, config_name, cached, detected) ==
    IF cached # None THEN cached
    ELSE IF config_lat # NoneNum /\ config_lon # NoneNum
      THEN LocationInfo(config_lat, config_lon,
                        IF config_name # "" THEN config_name ELSE "Configured Location",
                        "auto")
    ELSE detected
get_location(config_lat, config_lon, config_name, cached, detected) ==
    IF config_lat # NoneNum /\ config_lon # NoneNum
      THEN LocationInfo(config_lat, config_lon,
                        IF config_name # "" THEN config_name ELSE "Configured Location",
                        "auto")
    ELSE IF cached # None THEN cached
    ELSE detected

\* detect_location stores a detected location; get_location calls it only on
\* its last branch
CachedLocationAfter(config_lat, config_lon, cached, detected) ==
    IF config_lat # NoneNum /\ config_lon # NoneNum THEN cached
    ELSE IF cached # None THEN cached
    ELSE IF detected # None THEN detected
    ELSE cached

\* the calls of detect_location (one request to the IP service each) that one
\* get_location call makes: only its last branch makes one
detect_calls(config_lat, config_lon, cached) ==
    IF config_lat # NoneNum /\ config_lon # NoneNum THEN 0
    ELSE IF cached # None THEN 0
    ELSE 1

\* ------------------------------------------------------------ utils/config
\* RefreshConfig(weather_interval=wi, forecast_timeout=ft), __post_init__ included
RefreshConfig_NoClamp(wi, ft) ==
    [weather_interval |-> wi,
     forecast_timeout |-> IF ft < 5 THEN 5 ELSE IF ft > 300 THEN 300 ELSE ft]
RefreshConfig(wi, ft) ==
    [weather_interval |-> IF wi < 300 THEN 300 ELSE wi,
     forecast_timeout |-> IF ft < 5 THEN 5 ELSE IF ft > 300 THEN 300 ELSE ft]

\* weather_interval values a configuration file may hold
ConfiguredIntervals == {60, weather_interval}

LocationConfigs ==
    {[latitude |-> NoneNum, longitude |-> NoneNum, name |-> ""],
     [latitude |-> 40, longitude |-> 0 - 74, name |-> "Home"]}

\* ------------------------------------------------ the provider's responses
CurrentFull(temp) ==
    [temperature_2m |-> temp, apparent_temperature |-> temp - 2,
     weather_code |-> 3, relative_humidity_2m |-> 40, is_day |-> 0]
Daily(day) ==
    [time |-> <<day, day + 1>>, weather_code |-> <<0, 71>>,
     temperature_2m_max |-> <<75, 60>>, temperature_2m_min |-> <<50, 41>>]

PayloadA == [current |-> CurrentFull(70), daily |-> Daily(1)]
PayloadB == [current |-> CurrentFull(55), daily |-> Daily(2)]
PayloadBare == [current |-> [temperature_2m |-> 61, apparent_temperature |-> 61]]
PayloadNoCurrent == [daily |-> Daily(1)]
PayloadNoTemp == [current |-> [apparent_temperature |-> 68, weather_code |-> 0], daily |-> Daily(1)]
PayloadNoFeels == [current |-> [temperature_2m |-> 70], daily |-> Daily(1)]

Payloads == {PayloadA, PayloadB, PayloadBare, PayloadNoCurrent, PayloadNoTemp,
             PayloadNoFeels, EmptyDict}

\* Failures of one attempt.  requests.get raises Timeout or ConnectionError,
\* raise_for_status raises HTTPError for a non-2xx status, response.json
\* raises requests.JSONDecodeError for a body that is not JSON (requests
\* 2.27 and later): all are requests.RequestException, which the loop
\* catches.
FailureKinds == {"Timeout", "ConnectionError", "HTTPError", "JSONDecodeError"}

AttemptOutcomes ==
    {[kind |-> k, data |-> EmptyDict] : k \in FailureKinds}
        \cup {[kind |-> "ok", data |-> p] : p \in Payloads}

\* ------------------------------------------------------------------- state
VARIABLES
    pc,                   \* "start" before run(); "mainloop"; inside _make_request: "request", "sleep"; "stopped"
    now,                  \* wall clock, ms
    timers,               \* pending root.after callbacks: [id, due, cb]
    nextId,               \* id the next root.after call returns
    _weather_update_job,  \* WeatherClockApp._weather_update_job (NoneNum: None)
    config_location,      \* AppConfig.location
    configured_interval,  \* the weather_interval the configuration asked for
    config_refresh,       \* AppConfig.refresh
    wmo_code,             \* the argument of the last from_wmo_code call
    wmo_condition,        \* what that call returned
    daily_data,           \* the argument of the last _parse_daily_forecast call
    forecasts,            \* what that call returned or raised (None: not called)
    calls,                \* get_weather_safe calls made on the service directly
    config_file,          \* the file load_config was last called on
    loaded,               \* what that call returned or raised (None: not called)
    _cached_location,     \* LocationService._cached_location
    weather_service,      \* WeatherClockApp.weather_service (None until created)
    _cache,               \* WeatherService._cache
    _cache_time,          \* WeatherService._cache_time (NoneNum: None)
    weather_data,         \* WeatherClockApp.weather_data
    _current_view,        \* WeatherClockApp._current_view
    status,               \* text of the main view's StatusWidget
    main_shown,           \* WeatherData the main view's cards were last updated with
    attempt,              \* loop variable of _make_request
    last_error,           \* local last_error of _make_request ("" : None)
    cycles,               \* _update_weather invocations so far
    requests,             \* calls of requests.get in the current fetch
    sleeps,               \* arguments of time.sleep in the current fetch, in order
    outcomes,             \* what each attempt of the current fetch came back with
    fetched,              \* what _make_request returned or raised in this cycle (None: not yet)
    got,                  \* what get_weather returned or raised in this cycle (None: not yet)
    result,               \* what get_weather_safe returned or raised in this cycle (None: not yet)
    cache_before,         \* <<_cache, _cache_time>> when the current cycle began
    prev_got,             \* what get_weather returned or raised in the cycle before this one
    callback_exception,   \* exception Tk's report_callback_exception last received
    lookups,              \* calls of get_location made by the current _update_weather
    location_args,        \* the arguments of the last get_location call made on its own
    located,              \* what that call returned (None: nothing, or not called)
    detections,           \* calls of detect_location that call made
    _remaining_seconds,   \* ForecastView._remaining_seconds
    _countdown_job,       \* ForecastView._countdown_job (NoneNum: None)
    ticks,                \* _update_countdown callbacks run since the last show()
    closes,               \* calls of on_close since the last show()
    taps,                 \* button presses delivered by the window system, not yet handled
    presses,              \* button presses so far
    main_timezone         \* config.main_timezone.timezone, as the main view's clock has it

configVars == <<config_location, configured_interval, config_refresh>>
wmoVars == <<wmo_code, wmo_condition>>
dailyVars == <<daily_data, forecasts>>
loadVars == <<config_file, loaded>>
locVars == <<location_args, located, detections>>
fnVars == <<wmoVars, dailyVars, calls, loadVars, locVars>>
viewVars == <<_remaining_seconds, _countdown_job, ticks, closes, taps, presses,
              main_timezone>>
vars == <<pc, now, timers, nextId, _weather_update_job, configVars, fnVars,
          _cached_location, weather_service, _cache, _cache_time, weather_data,
          _current_view, status, main_shown, attempt, last_error, cycles,
          requests, sleeps, outcomes, fetched, got, result, cache_before,
          prev_got, callback_exception, lookups, viewVars>>

svcVars == <<_cache, _cache_time>>
appVars == <<weather_data, status, main_shown>>
timerVars == <<timers, nextId, _weather_update_job>>
callVars == <<fetched, got, result>>

\* the application after WeatherClockApp.__init__, with forecast_timeout: ft
\* in the configuration it was given
AppStart(ft) ==
    /\ pc = "start"
    /\ now = 0
    /\ timers = {}
    /\ nextId = 1
    /\ _weather_update_job = NoneNum
    /\ config_location \in LocationConfigs
    /\ configured_interval \in ConfiguredIntervals
    /\ config_refresh = RefreshConfig(configured_interval, ft)
    /\ _cached_location = None
    /\ weather_service = None
    /\ _cache = None
    /\ _cache_time = NoneNum
    /\ weather_data = None
    /\ _current_view = "main"
    /\ status = [text |-> "", at |-> NoneNum]
    /\ main_shown = None
    /\ attempt = 0
    /\ last_error = ""
    /\ cycles = 0
    /\ requests = 0
    /\ sleeps = <<>>
    /\ outcomes = <<>>
    /\ fetched = None
    /\ got = None
    /\ result = None
    /\ cache_before = <<None, NoneNum>>
    /\ prev_got = None
    /\ callback_exception = ""
    /\ lookups = 0
    /\ _remaining_seconds = config_refresh.forecast_timeout
    /\ _countdown_job = NoneNum
    /\ ticks = 0
    /\ closes = 0
    /\ taps = <<>>
    /\ presses = 0
    /\ main_timezone = "America/New_York"

\* the application as configured by default
AppInit == AppStart(forecast_timeout)

\* no single parser call is followed in the application's runs
WmoIdle == wmo_code = NoneNum /\ wmo_condition = ""
DailyIdle == daily_data = EmptyDict /\ forecasts = None
LoadIdle == config_file = [exists |-> FALSE] /\ loaded = None
LocIdle == location_args = None /\ located = None /\ detections = 0

Init ==
    /\ AppInit
    /\ WmoIdle
    /\ DailyIdle
    /\ LoadIdle
    /\ LocIdle
    /\ calls = 0

\* ------------------------------------------------------------ gui/display
\* root.after(ms, cb) called at time t
After(ms, t, cb) == [id |-> nextId, due |-> t + ms, cb |-> cb, ms |-> ms]

\* _schedule_weather_update, called at time t with the timers in `pending`
_schedule_weather_update(pending, t) ==
    LET interval_ms == config_refresh.weather_interval * 1000 IN
    /\ timers' = pending \cup {After(interval_ms, t, "_update_weather")}
    /\ _weather_update_job' = nextId
    /\ nextId' = nextId + 1

\* run(): arms the initial fetch and enters the main loop
run ==
    /\ pc = "start"
    /\ timers' = timers \cup {After(InitialDelayMs, now, "_update_weather")}
    /\ nextId' = nextId + 1
    /\ pc' = "mainloop"
    /\ UNCHANGED <<now, _weather_update_job, configVars, fnVars, _cached_location,
                   weather_service, svcVars, appVars, _current_view, viewVars, cycles, lookups,
                   attempt, last_error, requests, sleeps, outcomes, callVars,
                   cache_before, prev_got, callback_exception>>

\* root.after callbacks are one-shot: the one that runs is no longer pending
Fired_Repeating(pending, t) == pending
Fired(pending, t) == pending \ {t}

\* The main loop runs the callback that is due first.
Due(t) == t \in timers /\ \A u \in timers : t.due <= u.due

\* `if not self.weather_service:` - the location is looked up only while no
\* service exists
NeedsLocation_EveryCycle(service) == TRUE
NeedsLocation(service) == service = None

Updating(view, st) ==
    IF view = "main" THEN [text |-> "Updating...", at |-> NoneNum] ELSE st

\* _update_weather up to its call of get_weather_safe.  `detected` is what
\* the IP lookup answers if _init_weather_service has to make it.
UpdateWeatherBegin(t, detected) ==
    /\ pc = "mainloop"
    /\ Due(t)
    /\ t.cb = "_update_weather"
    /\ cycles < MaxCycles
    /\ cycles' = cycles + 1
    /\ now' = Max(now, t.due)
    /\ cache_before' = <<_cache, _cache_time>>
    /\ prev_got' = got
    /\ attempt' = 0
    /\ last_error' = ""
    /\ requests' = 0
    /\ sleeps' = <<>>
    /\ outcomes' = <<>>
    /\ fetched' = None
    /\ got' = None
    /\ result' = None
    /\ LET location == get_location(config_location.latitude, config_location.longitude,
                                    config_location.name, _cached_location, detected)
       IN
       IF NeedsLocation(weather_service) THEN
           /\ lookups' = 1
           /\ _cached_location' = CachedLocationAfter(config_location.latitude,
                                      config_location.longitude, _cached_location, detected)
           /\ IF location = None THEN
                  \* _init_weather_service returned False
                  /\ _schedule_weather_update(Fired(timers, t), now')
                  /\ pc' = "mainloop"
                  /\ UNCHANGED <<weather_service, status>>
              ELSE
                  /\ weather_service' = [latitude |-> location.latitude,
                                         longitude |-> location.longitude,
                                         temperature_unit |-> "fahrenheit",
                                         _location_name |-> location.name]
                  /\ status' = Updating(_current_view, status)
                  /\ timers' = Fired(timers, t)
                  /\ pc' = "request"
                  /\ UNCHANGED <<nextId, _weather_update_job>>
       ELSE
           /\ status' = Updating(_current_view, status)
           /\ timers' = Fired(timers, t)
           /\ pc' = "request"
           /\ lookups' = 0
           /\ UNCHANGED <<nextId, _weather_update_job, weather_service,
                          _cached_location>>
    /\ UNCHANGED <<configVars, fnVars, svcVars, weather_data, main_shown,
                   _current_view, viewVars, callback_exception>>

\* self.weather_data once get_weather_safe has returned val: the assignment
\* stands under `if weather_data:`, so None leaves the held value alone
HeldData_Blanked(held, val) ==
    IF val # None THEN val ELSE WeatherData(None, <<>>, "", NoneNum)
HeldData(held, val) == IF val # None THEN val ELSE held

\* The rest of _update_weather, at time t, once get_weather has returned or
\* raised gw.
UpdateWeatherEnd(gw, t) ==
    LET safe == get_weather_safe(gw) IN
    /\ got' = gw
    /\ result' = safe
    /\ pc' = "mainloop"
    /\ IF safe.exc # "" THEN
           \* the exception leaves _update_weather; Tk reports it and goes on
           /\ callback_exception' = safe.exc
           /\ UNCHANGED <<appVars, timerVars>>
       ELSE
           /\ weather_data' = HeldData(weather_data, safe.val)
           /\ IF safe.val # None THEN
                  /\ main_shown' = IF _current_view = "main" THEN safe.val ELSE main_shown
                  /\ status' = IF _current_view = "main"
                                 THEN [text |-> "Updated", at |-> safe.val.last_updated]
                                 ELSE status
              ELSE
                  /\ status' = IF _current_view = "main"
                                 THEN [text |-> "Offline - Using cached data", at |-> NoneNum]
                                 ELSE status
                  /\ UNCHANGED main_shown
           /\ _schedule_weather_update(timers, t)
           /\ UNCHANGED callback_exception

\* The for loop of _make_request moves on from pass `attempt` at time t:
\* the next pass, or the raise after the loop and what the callers do with it.
LoopNext(t) ==
    IF InRange(attempt + 1) THEN
        /\ attempt' = attempt + 1
        /\ pc' = "request"
        /\ UNCHANGED <<callVars, appVars, timerVars, callback_exception>>
    ELSE
        /\ fetched' = WeatherServiceError(last_error')
        /\ UpdateWeatherEnd(get_weather(fetched', _cache, _cache_time,
                                        weather_service._location_name, t), t)
        /\ UNCHANGED attempt

\* One pass of the body of the for loop of _make_request, up to the sleep.
Attempt(o) ==
    /\ pc = "request"
    /\ requests' = requests + 1
    /\ outcomes' = Append(outcomes, o)
    /\ IF AttemptSucceeded(o) THEN
           /\ _cache' = CacheAfterStore(_cache, o.data)
           /\ _cache_time' = CacheTimeAfterStore(_cache_time, now)
           /\ fetched' = Ok(o.data)
           /\ UpdateWeatherEnd(get_weather(fetched', _cache', _cache_time',
                                           weather_service._location_name, now), now)
           /\ UNCHANGED <<attempt, last_error>>
       ELSE
           /\ last_error' = RecordError(last_error, o.kind)
           /\ UNCHANGED svcVars
           /\ IF WaitBeforeRetry(attempt) THEN
                  /\ pc' = "sleep"
                  /\ UNCHANGED <<attempt, callVars, appVars, timerVars,
                                 callback_exception>>
              ELSE LoopNext(now)
    /\ UNCHANGED <<now, sleeps, configVars, fnVars, _cached_location, weather_service,
                   _current_view, viewVars, cycles, lookups, cache_before, prev_got>>

\* time.sleep(RETRY_DELAYS[attempt]) and the step to the next pass
Sleep ==
    /\ pc = "sleep"
    /\ LET delay == DelayFor(attempt) IN
       /\ sleeps' = Append(sleeps, delay)
       /\ now' = now + delay * 1000
    /\ UNCHANGED last_error
    /\ LoopNext(now')
    /\ UNCHANGED <<configVars, fnVars, _cached_location, weather_service,
                   svcVars, _current_view, viewVars, cycles, lookups, requests,
                   outcomes, cache_before, prev_got>>

\* root.after_cancel(id): the callback with that id, if still pending, is dropped
after_cancel_Noop(pending, id) == pending
after_cancel(pending, id) == {u \in pending : u.id # id}

\* stop(), from the Escape binding in windowed mode or after a keyboard
\* interrupt of the main loop: cancels the job it holds a handle of, then
\* root.quit() and root.destroy() end the main loop, so that no callback runs
\* any more; a timer it holds no handle of stays as it is.
stop ==
    /\ pc = "mainloop"
    /\ timers' = IF _weather_update_job # NoneNum
                   THEN after_cancel(timers, _weather_update_job)
                   ELSE timers
    /\ pc' = "stopped"
    /\ UNCHANGED <<now, nextId, _weather_update_job, configVars, fnVars,
                   _cached_location, weather_service, svcVars, appVars,
                   _current_view, viewVars, cycles, lookups, attempt, last_error, requests, sleeps,
                   outcomes, callVars, cache_before, prev_got, callback_exception>>

Next ==
    \/ run
    \/ stop
    \/ \E t \in timers, detected \in DetectOutcomes : UpdateWeatherBegin(t, detected)
    \/ \E o \in AttemptOutcomes : Attempt(o)
    \/ Sleep

Spec == Init /\ [][Next]_vars

\* ------------------------------------- gui: views, taps, the settings dialog
\* what a tap, a countdown tick or a settings save leaves alone
cycleVars == <<cycles, lookups, attempt, last_error, requests, sleeps, outcomes,
               callVars, cache_before, prev_got, callback_exception>>
serviceVars == <<configVars, fnVars, _cached_location, weather_service, svcVars>>

CountdownPending == \E t \in timers : t.cb = "_update_countdown"

\* ForecastView._cancel_timers on the timers in `pending`; _timeout_job is
\* never assigned anything but None, so only _countdown_job is cancelled
_cancel_timers(pending) ==
    IF _countdown_job # NoneNum THEN after_cancel(pending, _countdown_job) ELSE pending

\* ForecastView._close: _cancel_timers, then on_close, which is _show_main:
\* forecast_view.hide() (_cancel_timers again, with nothing left to cancel)
\* and the main view packed
_close(pending) ==
    /\ timers' = _cancel_timers(pending)
    /\ _countdown_job' = NoneNum
    /\ closes' = closes + 1
    /\ _current_view' = "main"

\* ForecastView.show at time t: update_forecast, then _start_auto_return_timer
\* and its first _update_countdown call.  A countdown already running is not
\* cancelled.
show(t) ==
    LET timeout_seconds == config_refresh.forecast_timeout IN
    /\ ticks' = 0
    /\ IF timeout_seconds > 0 THEN
           /\ _remaining_seconds' = timeout_seconds - 1
           /\ timers' = timers \cup {After(1000, t, "_update_countdown")}
           /\ _countdown_job' = nextId
           /\ nextId' = nextId + 1
           /\ closes' = 0
           /\ _current_view' = "forecast"
       ELSE
           /\ _remaining_seconds' = timeout_seconds
           /\ _close(timers)
           /\ closes' = 1
           /\ UNCHANGED nextId

\* _show_forecast, the tap handler of the temperature card
_show_forecast ==
    IF weather_data # None /\ weather_data.forecast # <<>>
      THEN show(now)
      ELSE UNCHANGED <<timers, nextId, _current_view, _remaining_seconds,
                       _countdown_job, ticks, closes>>

\* ForecastView._handle_tap, the tap handler of the forecast view
_handle_tap ==
    /\ _close(timers)
    /\ UNCHANGED <<nextId, _remaining_seconds, ticks>>

\* The user presses on the screen.  The window system sends the press to the
\* widget that is on screen at that moment, and Tk handles it when the main
\* loop next runs: a press made while _update_weather blocks the loop waits.
MaxTaps == 3
ButtonPress ==
    /\ pc \in {"mainloop", "request", "sleep"}
    /\ presses < MaxTaps
    /\ presses' = presses + 1
    /\ taps' = Append(taps, IF _current_view = "main" THEN "temp_card" ELSE "forecast_view")
    /\ UNCHANGED <<pc, now, timerVars, serviceVars, appVars, _current_view, cycleVars,
                   _remaining_seconds, _countdown_job, ticks, closes, main_timezone>>

\* The main loop handles the oldest press with the binding of its widget.
HandleTap ==
    /\ pc = "mainloop"
    /\ taps # <<>>
    /\ taps' = Tail(taps)
    /\ IF Head(taps) = "temp_card" THEN _show_forecast ELSE _handle_tap
    /\ UNCHANGED <<pc, now, _weather_update_job, serviceVars, appVars, cycleVars,
                   presses, main_timezone>>

\* ForecastView._update_countdown run as the callback t
_update_countdown(t) ==
    /\ pc = "mainloop"
    /\ Due(t)
    /\ t.cb = "_update_countdown"
    /\ now' = Max(now, t.due)
    /\ ticks' = ticks + 1
    /\ IF _remaining_seconds > 0 THEN
           /\ _remaining_seconds' = _remaining_seconds - 1
           /\ timers' = Fired(timers, t) \cup {After(1000, now', "_update_countdown")}
           /\ _countdown_job' = nextId
           /\ nextId' = nextId + 1
           /\ UNCHANGED <<closes, _current_view>>
       ELSE
           /\ _close(Fired(timers, t))
           /\ UNCHANGED <<_remaining_seconds, nextId>>
    /\ UNCHANGED <<pc, _weather_update_job, serviceVars, appVars, cycleVars, taps,
                   presses, main_timezone>>

\* The main loop, with nothing to handle, sleeps until shortly before its
\* next callback is due.
TapLead == 500
Idle ==
    /\ pc = "mainloop"
    /\ taps = <<>>
    /\ \E t \in timers :
          /\ Due(t)
          /\ now < t.due - TapLead
          /\ now' = t.due - TapLead
    /\ UNCHANGED <<pc, timerVars, serviceVars, appVars, _current_view, cycleVars,
                   viewVars>>

\* _on_settings_save, called by the settings dialog (opened from the main
\* view) with the configuration object it edited: the time zones change, the
\* rest of the configuration is the same object as before
Timezones == {"America/New_York", "Europe/London"}
_on_settings_save(tz) ==
    /\ pc = "mainloop"
    /\ _current_view = "main"
    /\ tz # main_timezone
    /\ main_timezone' = tz
    /\ UNCHANGED <<pc, now, timerVars, serviceVars, appVars, _current_view, cycleVars,
                   _remaining_seconds, _countdown_job, ticks, closes, taps, presses>>

\* The application with a short forecast timeout and a user at the screen,
\* while the provider answers every request, well or badly formed.
ShortTimeout == 3
UiOutcomes == {[kind |-> "ok", data |-> p] : p \in {PayloadA, PayloadNoCurrent}}
\* refresh cycles followed while the user is at the screen
UiCycles == 2

UiInit ==
    /\ AppStart(ShortTimeout)
    /\ configured_interval = weather_interval
    /\ WmoIdle
    /\ DailyIdle
    /\ LoadIdle
    /\ LocIdle
    /\ calls = 0

UiNext ==
    \/ run
    \/ stop
    \/ \E t \in timers, detected \in DetectOutcomes :
          cycles < UiCycles /\ UpdateWeatherBegin(t, detected)
    \/ \E o \in UiOutcomes : Attempt(o)
    \/ ButtonPress
    \/ HandleTap
    \/ \E t \in timers : _update_countdown(t)
    \/ Idle
    \/ \E tz \in Timezones : _on_settings_save(tz)

UiSpec == UiInit /\ [][UiNext]_vars

\* ------------------------------------------- one parser function at a time
\* the application, constructed and left alone while one function is called
appState == <<pc, now, timerVars, configVars, _cached_location,
              weather_service, svcVars, appVars, _current_view, viewVars, cycles, lookups,
              attempt, last_error, requests, sleeps, outcomes, callVars,
              cache_before, prev_got, callback_exception>>
AppAtRest ==
    /\ AppInit
    /\ config_location.name = "Home"
    /\ configured_interval = weather_interval

\* ------------------------------------ WeatherCondition.from_wmo_code alone
\* the codes classified: every code up to MaxCode, some negatives and 999
WmoCodes == ((0 - 3)..MaxCode) \cup {999}

\* an application that is constructed and left alone, and one code to classify
WmoInit ==
    /\ AppAtRest
    /\ DailyIdle
    /\ LoadIdle
    /\ LocIdle
    /\ calls = 0
    /\ wmo_code \in WmoCodes
    /\ wmo_condition = ""

\* the call WeatherCondition.from_wmo_code(wmo_code)
Classify ==
    /\ wmo_condition = ""
    /\ wmo_condition' = from_wmo_code(wmo_code)
    /\ UNCHANGED <<appState, wmo_code, dailyVars, calls, loadVars, locVars>>

WmoNext == Classify

WmoSpec == WmoInit /\ [][WmoNext]_vars

\* ---------------------------------- WeatherService._parse_daily_forecast alone
\* what the provider puts at index i of each daily array
DateAt(i) == 100 + i
WmoSample == <<0, 3, 61, 71, 95, 45, 86, 1>>
CodeAt(i) == WmoSample[((i - 1) % Len(WmoSample)) + 1]
HighAt(i) == 70 + i
LowAt(i) == 50 + i

\* a date entry that is not an ISO date: malformed text (0) or null
BadDates == {0, NoneNum}

\* "time" arrays of up to MaxDays entries, with at most one bad entry
DateArrays ==
    {[i \in 1..n |-> DateAt(i)] : n \in 0..MaxDays}
        \cup UNION {{[i \in 1..n |-> IF i = b THEN v ELSE DateAt(i)] :
                        b \in 1..n, v \in BadDates} : n \in 1..MaxDays}

\* "daily" objects: the four arrays with lengths of their own, and objects
\* where the other three arrays, or every key, are missing
DailyInputs ==
    {[time |-> d,
      weather_code |-> [i \in 1..c |-> CodeAt(i)],
      temperature_2m_max |-> [i \in 1..h |-> HighAt(i)],
      temperature_2m_min |-> [i \in 1..l |-> LowAt(i)]] :
        d \in DateArrays, c \in 0..MaxDays, h \in 0..MaxDays, l \in 0..MaxDays}
        \cup {[time |-> d] : d \in DateArrays}
        \cup {EmptyDict}

DailyInit ==
    /\ AppAtRest
    /\ WmoIdle
    /\ LoadIdle
    /\ LocIdle
    /\ calls = 0
    /\ daily_data \in DailyInputs
    /\ forecasts = None

\* the call self._parse_daily_forecast(daily_data)
ParseDaily ==
    /\ forecasts = None
    /\ forecasts' = _parse_daily_forecast(daily_data)
    /\ UNCHANGED <<appState, wmoVars, daily_data, calls, loadVars, locVars>>

DailyNext == ParseDaily

DailySpec == DailyInit /\ [][DailyNext]_vars

\* ------------------------------------ a WeatherService called directly
\* The service is a public class: a caller other than the application's
\* timer loop calls get_weather_safe() again whatever the last call did.
PayloadNullTemp ==
    [current |-> [temperature_2m |-> NoneNum, apparent_temperature |-> 50,
                  weather_code |-> 3],
     daily |-> Daily(1)]
PayloadNullFeels ==
    [current |-> [temperature_2m |-> 52, apparent_temperature |-> NoneNum]]

SvcPayloads == {PayloadA, PayloadB, PayloadNoTemp, PayloadNullTemp,
                PayloadNullFeels, EmptyDict}
SvcOutcomes ==
    {[kind |-> k, data |-> EmptyDict] : k \in {"Timeout", "ConnectionError"}}
        \cup {[kind |-> "ok", data |-> p] : p \in SvcPayloads}

\* what the passes of one _make_request call come back with, pass by pass
SvcRuns == [1..MAX_RETRIES -> SvcOutcomes]

SvcLocationName == "Home"

\* _make_request from pass `a` on, at time t, with last_error `last`, after
\* the sleeps `slept`, the cache being `cache` = <<_cache, _cache_time>>, when
\* pass k comes back with os[k + 1]: what it returns or raises, when, and
\* what it leaves behind
RECURSIVE _make_request(_, _, _, _, _, _)
_make_request(os, a, last, t, slept, cache) ==
    IF ~InRange(a) THEN
        [mr |-> WeatherServiceError(last), at |-> t, sleeps |-> slept,
         requests |-> a, cache |-> cache]
    ELSE LET o == os[a + 1] IN
        IF AttemptSucceeded(o) THEN
            [mr |-> Ok(o.data), at |-> t, sleeps |-> slept, requests |-> a + 1,
             cache |-> <<CacheAfterStore(cache[1], o.data),
                         CacheTimeAfterStore(cache[2], t)>>]
        ELSE IF WaitBeforeRetry(a) THEN
            _make_request(os, a + 1, RecordError(last, o.kind),
                          t + DelayFor(a) * 1000, Append(slept, DelayFor(a)), cache)
        ELSE
            _make_request(os, a + 1, RecordError(last, o.kind), t, slept, cache)

SvcInit ==
    /\ AppAtRest
    /\ WmoIdle
    /\ DailyIdle
    /\ LoadIdle
    /\ LocIdle
    /\ calls = 0

\* one call of get_weather_safe() on the service
SvcGetWeatherSafe(os) ==
    /\ calls < MaxCalls
    /\ calls' = calls + 1
    /\ LET r == _make_request(os, 0, "", now, <<>>, <<_cache, _cache_time>>)
           gw == get_weather(r.mr, r.cache[1], r.cache[2], SvcLocationName, r.at)
       IN /\ fetched' = r.mr
          /\ got' = gw
          /\ result' = get_weather_safe(gw)
          /\ _cache' = r.cache[1]
          /\ _cache_time' = r.cache[2]
          /\ now' = r.at
          /\ sleeps' = r.sleeps
          /\ requests' = r.requests
          /\ outcomes' = SubSeq(os, 1, r.requests)
    /\ cache_before' = <<_cache, _cache_time>>
    /\ prev_got' = got
    /\ UNCHANGED <<pc, timerVars, configVars, wmoVars, dailyVars, loadVars, locVars,
                   _cached_location,
                   weather_service, appVars, _current_view, viewVars, cycles, lookups, attempt,
                   last_error, callback_exception>>

SvcNext == \E os \in SvcRuns : SvcGetWeatherSafe(os)

SvcSpec == SvcInit /\ [][SvcNext]_vars

\* ------------------------------------------------- utils/config: load_config
\* YAML values carry their type: a mapping holds a function from keys to values
Num(n) == [t |-> "int", n |-> n]
Str(x) == [t |-> "str", s |-> x]
Map(f) == [t |-> "map", m |-> f]
Bool(b) == [t |-> "bool", b |-> b]
Null == [t |-> "null"]
YList == [t |-> "list"]
Absent == [t |-> "absent"]

\* `k in v`: a key of a mapping; False for a list without it and for a string
\* that does not contain it (none of the strings here contains a key);
\* TypeError for a number
In(k, v) ==
    IF v.t = "map" THEN Ok(k \in DOMAIN v.m)
    ELSE IF v.t \in {"str", "list"} THEN Ok(FALSE)
    ELSE Raise("TypeError", "argument is not iterable")

\* truth value of a YAML value
YTruthy(v) ==
    IF v.t = "map" THEN DOMAIN v.m # {}
    ELSE IF v.t = "str" THEN v.s # ""
    ELSE IF v.t = "int" THEN v.n # 0
    ELSE v.t = "list"

\* `if k in data and data[k]`: whether the block for k runs
Has(data, k) ==
    LET i == In(k, data) IN
    IF i.exc # "" THEN i ELSE Ok(i.val /\ YTruthy(data.m[k]))

\* sec.get(k, default) for each field: AttributeError unless sec is a mapping
Fields(sec) ==
    IF sec.t = "map" THEN Ok(sec.m) ELSE Raise("AttributeError", "no attribute 'get'")

LocationConfig(latitude, longitude, name) ==
    [latitude |-> latitude, longitude |-> longitude, name |-> name]

\* DisplayConfig(...), __post_init__ included
DisplayConfig(temperature_unit, time_format, show_seconds, theme) ==
    [temperature_unit |-> IF temperature_unit \notin {Str("fahrenheit"), Str("celsius")}
                            THEN Str("fahrenheit") ELSE temperature_unit,
     time_format |-> IF time_format \notin {Str("12h"), Str("24h")}
                       THEN Str("12h") ELSE time_format,
     show_seconds |-> show_seconds,
     theme |-> IF theme \notin {Str("dark"), Str("light")} THEN Str("dark") ELSE theme]

\* RefreshConfig(...) on YAML values: `<` between a number and a string or
\* None is a TypeError
RefreshConfigOf(wi, ft) ==
    IF wi.t # "int" \/ ft.t # "int"
      THEN Raise("TypeError", "'<' not supported")
    ELSE Ok(RefreshConfig(wi.n, ft.n))

TimezoneConfig(timezone, label, country) ==
    [timezone |-> timezone, label |-> label, country |-> country]

\* AppConfig()
AppConfig ==
    [location |-> LocationConfig(Null, Null, Str("")),
     display |-> DisplayConfig(Str("fahrenheit"), Str("12h"), Bool(TRUE), Str("dark")),
     refresh |-> RefreshConfig(weather_interval, forecast_timeout),
     main_timezone |-> TimezoneConfig(Str("America/New_York"), Str("New York"), Str("USA")),
     secondary_timezone_1 |-> TimezoneConfig(Str("Europe/London"), Str("London"), Str("UK")),
     secondary_timezone_2 |-> TimezoneConfig(Str("Asia/Tokyo"), Str("Tokyo"), Str("Japan"))]

\* one `if k in data and data[k]:` block: the mapping its sec.get calls read
\* (None when the block is skipped), or the exception raised on the way
Block(data, k) ==
    LET h == Has(data, k) IN
    IF h.exc # "" THEN h
    ELSE IF ~h.val THEN Ok(None)
    ELSE Fields(data.m[k])

\* one clock of the `timezones` block
TzBlock(tz, k, default) ==
    LET f == Block(tz, k) IN
    IF f.exc # "" THEN f
    ELSE IF f.val = None THEN Ok(default)
    ELSE Ok(TimezoneConfig(Get(f.val, "timezone", default.timezone),
                           Get(f.val, "label", default.label),
                           Get(f.val, "country", default.country)))

\* the body of the try block once yaml.safe_load has returned `data`
ParseConfig(data) ==
    LET config == AppConfig
        loc == Block(data, "location")
        disp == Block(data, "display")
        ref == Block(data, "refresh")
        location ==
            IF loc.exc # "" THEN loc
            ELSE IF loc.val = None THEN Ok(config.location)
            ELSE Ok(LocationConfig(Get(loc.val, "latitude", Null),
                                   Get(loc.val, "longitude", Null),
                                   Get(loc.val, "name", Str(""))))
        display ==
            IF disp.exc # "" THEN disp
            ELSE IF disp.val = None THEN Ok(config.display)
            ELSE Ok(DisplayConfig(Get(disp.val, "temperature_unit", Str("fahrenheit")),
                                  Get(disp.val, "time_format", Str("12h")),
                                  Get(disp.val, "show_seconds", Bool(TRUE)),
                                  Get(disp.val, "theme", Str("dark"))))
        refresh ==
            IF ref.exc # "" THEN ref
            ELSE IF ref.val = None THEN Ok(config.refresh)
            ELSE RefreshConfigOf(Get(ref.val, "weather_interval", Num(900)),
                                 Get(ref.val, "forecast_timeout", Num(30)))
        hastz == Has(data, "timezones")
        tz == data.m["timezones"]
        main == IF hastz.exc # "" THEN hastz
                ELSE IF ~hastz.val THEN Ok(config.main_timezone)
                ELSE TzBlock(tz, "main", config.main_timezone)
        sec1 == IF hastz.exc # "" THEN hastz
                ELSE IF ~hastz.val THEN Ok(config.secondary_timezone_1)
                ELSE TzBlock(tz, "secondary_1", config.secondary_timezone_1)
        sec2 == IF hastz.exc # "" THEN hastz
                ELSE IF ~hastz.val THEN Ok(config.secondary_timezone_2)
                ELSE TzBlock(tz, "secondary_2", config.secondary_timezone_2)
    IN IF location.exc # "" THEN location
       ELSE IF display.exc # "" THEN display
       ELSE IF refresh.exc # "" THEN refresh
       ELSE IF main.exc # "" THEN main
       ELSE IF sec1.exc # "" THEN sec1
       ELSE IF sec2.exc # "" THEN sec2
       ELSE Ok([location |-> location.val, display |-> display.val,
                refresh |-> refresh.val, main_timezone |-> main.val,
                secondary_timezone_1 |-> sec1.val, secondary_timezone_2 |-> sec2.val])

\* load_config(config_path) for the file at config_path
load_config(file) ==
    IF ~file.exists THEN Ok(AppConfig)
    ELSE IF file.read = "OSError" THEN Ok(AppConfig)       \* except Exception
    ELSE IF file.read = "YAMLError" THEN Ok(AppConfig)     \* except yaml.YAMLError
    ELSE IF file.data = Null THEN Ok(AppConfig)            \* data is None
    ELSE LET config == ParseConfig(file.data) IN
         IF config.exc # "" THEN Ok(AppConfig)             \* except Exception
         ELSE config

\* what a configuration file may hold under each top-level key
LocationSections ==
    {Absent, Null,
     Map([latitude |-> Num(40), longitude |-> Num(0 - 74), name |-> Str("Home")]),
     Map([latitude |-> Str("abc"), longitude |-> Num(0)]),
     Str("here")}
DisplaySections ==
    {Absent,
     Map([temperature_unit |-> Str("celsius"), theme |-> Str("light")]),
     Map([theme |-> Num(5)])}
RefreshSections ==
    {Absent, Map(EmptyDict),
     Map([weather_interval |-> Num(60)]),
     Map([weather_interval |-> Num(600), forecast_timeout |-> Num(3)]),
     Map([forecast_timeout |-> Num(1000)]),
     Map([weather_interval |-> Str("fast")]),
     Map([weather_interval |-> Null]),
     Num(600)}
TimezoneSections ==
    {Absent,
     Map([main |-> Map([timezone |-> Str("Europe/Paris"), label |-> Str("Paris")])]),
     Map([main |-> Map([timezone |-> Num(123)]), secondary_2 |-> Str("Tokyo")])}

SectionNames == {"location", "display", "refresh", "timezones"}

\* the mapping with the sections that are not Absent
Document(secs) ==
    Map([k \in {n \in SectionNames : secs[n] # Absent} |-> secs[k]])

\* a file that is missing, unreadable, not YAML, empty, a scalar or a list,
\* or a mapping of sections
ConfigFiles ==
    {[exists |-> FALSE],
     [exists |-> TRUE, read |-> "OSError", data |-> Null],
     [exists |-> TRUE, read |-> "YAMLError", data |-> Null],
     [exists |-> TRUE, read |-> "ok", data |-> Null],
     [exists |-> TRUE, read |-> "ok", data |-> Num(7)],
     [exists |-> TRUE, read |-> "ok", data |-> Str("hello")],
     [exists |-> TRUE, read |-> "ok", data |-> YList]}
      \cup {[exists |-> TRUE, read |-> "ok",
              data |-> Document([location |-> l, display |-> d, refresh |-> r, timezones |-> z])] :
                l \in LocationSections, d \in DisplaySections,
                r \in RefreshSections, z \in TimezoneSections}

LoadInit ==
    /\ AppAtRest
    /\ WmoIdle
    /\ DailyIdle
    /\ LocIdle
    /\ calls = 0
    /\ config_file \in ConfigFiles
    /\ loaded = None

\* the call load_config(config_path)
LoadConfig ==
    /\ loaded = None
    /\ loaded' = load_config(config_file)
    /\ UNCHANGED <<appState, wmoVars, dailyVars, calls, config_file, locVars>>

LoadNext == LoadConfig

LoadSpec == LoadInit /\ [][LoadNext]_vars

\* ----------------------------------------- LocationService.get_location alone
\* configured values: unset, the equator / Greenwich, a place
ConfigLats == {NoneNum, 0, 40}
ConfigLons == {NoneNum, 0, 0 - 74}
ConfigNames == {"", "Home"}
\* what the IP service may answer when asked
Detections ==
    DetectOutcomes \cup {LocationInfo(48, 2, "Paris, Ile-de-France", "Europe/Paris")}

LocInit ==
    /\ AppAtRest
    /\ WmoIdle
    /\ DailyIdle
    /\ LoadIdle
    /\ LocIdle
    /\ calls = 0

\* one call self.location_service.get_location(lat, lon, name) on a service
\* whose IP lookup, if made, answers `detected`
GetLocation(lat, lon, name, detected) ==
    /\ calls < MaxCalls
    /\ calls' = calls + 1
    /\ location_args' = [config_lat |-> lat, config_lon |-> lon, config_name |-> name,
                         cached |-> _cached_location, detected |-> detected]
    /\ located' = get_location(lat, lon, name, _cached_location, detected)
    /\ detections' = detect_calls(lat, lon, _cached_location)
    /\ _cached_location' = CachedLocationAfter(lat, lon, _cached_location, detected)
    /\ UNCHANGED <<pc, now, timerVars, configVars, weather_service, svcVars, appVars,
                   _current_view, viewVars, cycles, lookups, attempt, last_error,
                   requests, sleeps, outcomes, callVars, cache_before, prev_got,
                   callback_exception, wmoVars, dailyVars, loadVars>>

LocNext ==
    \E lat \in ConfigLats, lon \in ConfigLons, name \in ConfigNames,
       detected \in Detections : GetLocation(lat, lon, name, detected)

LocSpec == LocInit /\ [][LocNext]_vars

TypeOK ==
    /\ pc \in {"start", "mainloop", "request", "sleep", "stopped"}
    /\ attempt \in 0..(MAX_RETRIES - 1)
    /\ requests \in 0..MAX_RETRIES
    /\ Len(outcomes) = requests

\* ------------------------------------------------------------ properties
\* _make_request raised after its loop / returned a payload, in this cycle
AllFailed == fetched # None /\ fetched.exc = "WeatherServiceError"
FetchOk == fetched # None /\ fetched.exc = ""
TimerPending == \E t \in timers : t.cb = "_update_weather"

RECURSIVE SumSeq(_)
SumSeq(q) == IF q = <<>> THEN 0 ELSE Head(q) + SumSeq(Tail(q))

\* C1: whenever _update_weather has run and control is back in the main
\* loop, a timer for the next _update_weather is pending, whatever the
\* provider answered.
C1_RearmedAfterEveryCycle ==
    (pc = "mainloop" /\ cycles > 0) => TimerPending

\* C2: one fetch issues between 1 and 3 requests, and none after the third:
\* the request count never exceeds 3, the loop is never about to request or
\* sleep once 3 requests were made, and a finished fetch made at least one.
C2_AtMostThreeAttempts ==
    /\ requests \in 0..3
    /\ Len(outcomes) = requests
    /\ pc \in {"request", "sleep"} => requests < 3
    /\ fetched # None => requests \in 1..3

C2_Witness == AllFailed /\ requests = 3 /\ pc = "mainloop"

\* C3: an attempt k that comes back with a payload is the last of its fetch:
\* _make_request has returned exactly that payload, k requests were made,
\* k-1 sleeps were taken and the loop is left.
C3_SuccessEndsLoop ==
    \A k \in 1..Len(outcomes) :
        outcomes[k].kind = "ok" =>
            /\ k = Len(outcomes)
            /\ requests = k
            /\ Len(sleeps) = k - 1
            /\ pc \notin {"request", "sleep"}
            /\ fetched = Ok(outcomes[k].data)

C3_Witness ==
    /\ Len(outcomes) = 2
    /\ outcomes[1].kind = "HTTPError"
    /\ outcomes[2].kind = "ok"

\* C4: a fetch that succeeds on attempt k has slept exactly the first k-1
\* delays 5, 15 and its data does not come from the cache fallback; after
\* timeout, timeout, payload the sleeps sum to 20 s and the payload is the
\* one returned, cached at the time of the third attempt.
C4_WaitIsSumOfDelays ==
    /\ FetchOk =>
          /\ sleeps = SubSeq(<<5, 15>>, 1, requests - 1)
          /\ got.exc = "" => got.via = "fetch"
    /\ ( /\ Len(outcomes) = 3
         /\ outcomes[1].kind = "Timeout"
         /\ outcomes[2].kind = "Timeout"
         /\ outcomes[3].kind = "ok" ) =>
          /\ fetched = Ok(outcomes[3].data)
          /\ SumSeq(sleeps) = 20
          /\ _cache_time = now
          /\ got.exc = "" => (got.via = "fetch" /\ got.val.last_updated = now)

C4_Witness ==
    /\ Len(outcomes) = 3
    /\ outcomes[1].kind = "Timeout"
    /\ outcomes[2].kind = "Timeout"
    /\ outcomes[3] = [kind |-> "ok", data |-> PayloadA]
    /\ result # None /\ result.exc = "" /\ result.val # None

\* C5: when all three attempts fail the fetch has slept exactly twice, 5 s
\* then 15 s, and no sleep follows the third attempt.
C5_NoWaitAfterLastAttempt ==
    /\ AllFailed => (requests = 3 /\ sleeps = <<5, 15>>)
    /\ pc = "sleep" => requests < 3
    /\ Len(sleeps) <= 2
    /\ \A i \in 1..Len(sleeps) : \A j \in 1..Len(sleeps) : i < j => sleeps[i] < sleeps[j]

C5_Witness == AllFailed /\ pc = "mainloop" /\ Len(sleeps) = 2

\* C6: a fetch whose attempts all fail raises WeatherServiceError, carrying
\* the error text of its last attempt, and returns nothing.
C6_RaisesLastError ==
    /\ (requests = 3 /\ outcomes[3].kind # "ok") => AllFailed
    /\ AllFailed =>
          /\ "val" \notin DOMAIN fetched
          /\ fetched.msg.last_error =
                (IF outcomes[3].kind = "Timeout" THEN "Request timed out"
                 ELSE outcomes[3].kind)

C6_Witness ==
    /\ AllFailed
    /\ outcomes[1].kind = "Timeout"
    /\ outcomes[2].kind = "ConnectionError"
    /\ outcomes[3].kind = "JSONDecodeError"

\* C7: every failing attempt but the third is followed by another attempt,
\* a JSON body without "current" or "daily" counting as failing, and no
\* exception leaves the cycle.
FailingOutcome(o) ==
    \/ o.kind \in FailureKinds
    \/ o.kind = "ok" /\ ~({"current", "daily"} \subseteq DOMAIN o.data)

C7_EveryFailureRetried ==
    /\ \A k \in 1..Len(outcomes) :
          (FailingOutcome(outcomes[k]) /\ k < 3) => (k < Len(outcomes) \/ pc = "sleep")
    /\ callback_exception = ""

\* C8: when all attempts fail and the cache held a payload when the cycle
\* began, the cycle delivers the data of that payload with last_updated the
\* cache's fetch time, and cache and cache time are as they were.
C8_FallbackCarriesCache ==
    (AllFailed /\ cache_before[1] # None) =>
        /\ got.exc = "" /\ got.via = "cache"
        /\ result = got
        /\ weather_data = got.val
        /\ got.val.current.temperature = cache_before[1].current.temperature_2m
        /\ got.val.current.feels_like = cache_before[1].current.apparent_temperature
        /\ got.val.last_updated = cache_before[2]
        /\ get_cache_age(_cache_time, now) = now - got.val.last_updated
        /\ <<_cache, _cache_time>> = cache_before

C8_Witness ==
    /\ AllFailed
    /\ cache_before[1] = PayloadB
    /\ result # None /\ result.exc = "" /\ result.val # None
    /\ now - result.val.last_updated > weather_interval * 1000

\* C9: when all attempts fail and nothing was ever cached, get_weather raises
\* WeatherServiceError, get_weather_safe returns None, and the cycle ends in
\* the main loop with no exception reported and the next timer armed.
C9_TotalFailureIsUnavailable ==
    (AllFailed /\ cache_before[1] = None) =>
        /\ got.exc = "WeatherServiceError"
        /\ result = Ok(None)
        /\ callback_exception = ""
        /\ pc \notin {"request", "sleep"}
        /\ pc = "mainloop" => TimerPending
        /\ weather_data = None

C9_Witness ==
    AllFailed /\ cache_before[1] = None /\ result = Ok(None) /\ pc = "mainloop"

\* C10: the cached payload is always one current conditions can be parsed
\* from.
C10_CacheAlwaysParseable ==
    _cache # None =>
        _parse_current_weather(Get(_cache, "current", EmptyDict), now).exc = ""

\* C11: get_weather_safe hands its caller a WeatherData (fresh or cached) or
\* None, and never an exception.
C11_SafeNeverRaises ==
    result # None =>
        /\ result.exc = ""
        /\ result.val # None => result.via \in {"fetch", "cache"}

\* C12: while a fetch is in progress, its retry waits included, no
\* _update_weather begins and no timer that could begin one is pending.
C12_OneFetchInFlight ==
    /\ [][(pc \in {"request", "sleep"}) => (cycles' = cycles)]_vars
    /\ [](pc \in {"request", "sleep"} => ~TimerPending)

C12_Witness == pc = "request" /\ Len(sleeps) = 2 /\ cycles = 2

\* C14: on the main view, the status after a cycle is the offline/cached one
\* exactly when the cycle ended in the fallback to cached data.
C14_OfflineIffFallback ==
    (pc = "mainloop" /\ _current_view = "main" /\ result # None /\ result.exc = "") =>
        ((status.text = "Offline - Using cached data")
            <=> (got.exc = "" /\ got.via = "cache"))

\* C13 as claimed: once stop() has run, no timer for _update_weather is
\* pending, whichever call armed it, and so no _update_weather begins.
C13_StopCancelsEveryTimer ==
    pc = "stopped" => ~TimerPending

\* C13 as the code has it: once stop() has run, no _update_weather begins
\* and nothing else runs either, and the timer _weather_update_job names is
\* no longer pending.
C13_NoRefreshAfterStop ==
    /\ [][(pc = "stopped") => (cycles' = cycles /\ pc' = "stopped")]_vars
    /\ [](pc = "stopped" => \A t \in timers : t.id # _weather_update_job)

C13_Witness == pc = "stopped" /\ cycles = 2 /\ _weather_update_job # NoneNum

\* get_weather ended in the fallback to the cache
IsFallback(g) == g # None /\ g.exc = "" /\ g.via = "cache"

\* C15: the cache is never dropped: once has_cached_data() is true it stays
\* true, it is true after every fetch that returned, and the cached content
\* changes only in the step of an attempt that returned, to what it returned.
C15_CacheNeverExpires ==
    /\ [](FetchOk => has_cached_data(_cache))
    /\ [][ /\ has_cached_data(_cache) => has_cached_data(_cache')
           /\ (_cache' # _cache) =>
                 (FetchOk' /\ requests' = requests + 1 /\ _cache' = fetched'.val) ]_vars

C15_Witness ==
    /\ cycles = 3
    /\ AllFailed
    /\ IsFallback(prev_got)
    /\ has_cached_data(_cache)
    /\ now - _cache_time > 2 * DefaultMaxAge * 1000

\* C16: two fallback outcomes in consecutive cycles, with no fetch returning
\* in between, are equal in every field.
C16_FallbackTwiceIdentical ==
    (IsFallback(got) /\ IsFallback(prev_got)) => got.val = prev_got.val

\* C17: is_stale with the default threshold is true exactly when the data is
\* more than 900 s old (not at 900 s), and a cycle whose attempts all fail
\* still delivers the cached data, stale or not.
C17_StaleIsStrictAndAdvisory ==
    /\ weather_data # None =>
          (is_stale(weather_data, now, DefaultMaxAge)
              <=> now - weather_data.last_updated > 900000)
    /\ (AllFailed /\ cache_before[1] # None) =>
          (result # None /\ result.exc = "" /\ result.val # None)

C17_Witness ==
    /\ IsFallback(got)
    /\ result = got
    /\ is_stale(result.val, now, DefaultMaxAge)

\* C18: get_cache_age() is None exactly when nothing is cached; it is 0 in
\* the step of an attempt that returned and from then on grows with the
\* clock, whatever fails.
C18_CacheAgeSinceLastSuccess ==
    /\ [](get_cache_age(_cache_time, now) = NoneNum <=> ~has_cached_data(_cache))
    /\ [][ IF FetchOk' /\ requests' = requests + 1
             THEN get_cache_age(_cache_time', now') = 0
             ELSE has_cached_data(_cache) =>
                     (get_cache_age(_cache_time', now') - get_cache_age(_cache_time, now)
                         = now' - now) ]_vars

C18_Witness ==
    /\ AllFailed
    /\ Len(sleeps) = 2
    /\ has_cached_data(_cache)
    /\ get_cache_age(_cache_time, now) > DefaultMaxAge * 1000

\* C19: the RefreshConfig in use holds max(v, 300) for the configured
\* weather_interval v, and the timer armed by _schedule_weather_update waits
\* at least 300 s.
C19_IntervalAtLeast300 ==
    /\ config_refresh.weather_interval
          = IF configured_interval > 300 THEN configured_interval ELSE 300
    /\ \A t \in timers : t.id = _weather_update_job => t.ms >= 300 * 1000

C19_Witness ==
    /\ configured_interval = 60
    /\ cycles = 2
    /\ \E t \in timers : t.id = _weather_update_job /\ t.ms = 300 * 1000

\* C20: from_wmo_code returns one of the four categories for every integer
\* code: Sunny exactly for 0 and 1, Cloudy exactly for 2, 3, 45, 48, Snow
\* exactly for 71, 73, 75, 77, 85, 86, and Rain for every other code.
C20_WmoTable ==
    wmo_condition # "" =>
        /\ wmo_condition \in {"sunny", "cloudy", "snow", "rain"}
        /\ wmo_condition = "sunny" <=> wmo_code \in {0, 1}
        /\ wmo_condition = "cloudy" <=> wmo_code \in {2, 3, 45, 48}
        /\ wmo_condition = "snow" <=> wmo_code \in {71, 73, 75, 77, 85, 86}
        /\ wmo_condition = "rain" <=>
              wmo_code \notin {0, 1, 2, 3, 45, 48, 71, 73, 75, 77, 85, 86}

C20_Witness == wmo_code = 86 /\ wmo_condition = "snow"

\* the arrays of the daily object parsed, as the parser reads them
InDates == Get(daily_data, "time", <<>>)
InCodes == Get(daily_data, "weather_code", <<>>)
InHighs == Get(daily_data, "temperature_2m_max", <<>>)
InLows == Get(daily_data, "temperature_2m_min", <<>>)
MinLen5 == IF Len(InDates) < 5 THEN Len(InDates) ELSE 5
\* index i has a well-formed date and an element in each other array
Complete(i) ==
    /\ InDates[i] >= 1
    /\ i <= Len(InCodes) /\ i <= Len(InHighs) /\ i <= Len(InLows)
\* entry e is the forecast of index i
EntryOf(e, i) ==
    /\ e.date = InDates[i]
    /\ e.weather_code = InCodes[i]
    /\ e.high_temp = InHighs[i]
    /\ e.low_temp = InLows[i]

\* C21: when the four daily arrays all have length n and hold dates,
\* _parse_daily_forecast returns, without raising, min(n, 5) entries, the
\* k-th being the forecast of input index k.
C21_FirstFiveInOrder ==
    ( /\ forecasts # None
      /\ Len(InCodes) = Len(InDates)
      /\ Len(InHighs) = Len(InDates)
      /\ Len(InLows) = Len(InDates)
      /\ \A i \in 1..Len(InDates) : InDates[i] >= 1 ) =>
        /\ forecasts.exc = ""
        /\ Len(forecasts.val) = MinLen5
        /\ Len(forecasts.val) <= 5
        /\ \A k \in 1..MinLen5 : EntryOf(forecasts.val[k], k)

C21_Witness ==
    /\ forecasts # None
    /\ Len(InDates) = 6 /\ Len(InCodes) = 6 /\ Len(InHighs) = 6 /\ Len(InLows) = 6
    /\ \A i \in 1..6 : InDates[i] >= 1
    /\ Len(forecasts.val) = 5

\* C22: _parse_daily_forecast never raises; it returns, in input order, the
\* forecast of every index below min(len(dates), 5) that has a well-formed
\* date and an element in each array, and nothing for any other index.
C22_BadIndexCostsOneDay ==
    forecasts # None =>
        /\ forecasts.exc = ""
        /\ Len(forecasts.val) = Cardinality({i \in 1..MinLen5 : Complete(i)})
        /\ \A i \in 1..MinLen5 :
              Complete(i) => \E k \in 1..Len(forecasts.val) : EntryOf(forecasts.val[k], i)
        /\ \A k, l \in 1..Len(forecasts.val) :
              k < l => forecasts.val[k].date < forecasts.val[l].date

\* C23: when a request has returned, parsing its "current" object never
\* fails over optional fields (absent humidity is None, absent weather code
\* is 0, absent is-day flag is day), and when temperature or apparent
\* temperature is absent the cycle treats it as a failed fetch: nothing
\* escapes get_weather_safe or the callback and the next timer is armed.
C23_RequiredFieldsOnly ==
    (FetchOk /\ got # None) =>
        LET cur == Get(fetched.val, "current", EmptyDict) IN
        IF {"temperature_2m", "apparent_temperature"} \subseteq DOMAIN cur
          THEN /\ got.exc = ""
               /\ got.val.current.humidity = Get(cur, "relative_humidity_2m", NoneNum)
               /\ got.val.current.weather_code = Get(cur, "weather_code", 0)
               /\ got.val.current.is_day = (Get(cur, "is_day", 1) # 0)
          ELSE /\ result.exc = ""
               /\ callback_exception = ""
               /\ pc = "mainloop" => TimerPending

\* C24: every WeatherData that get_weather returns, from a fetch or from the
\* cache, has a temperature and a feels-like temperature that are not None.
C24_TemperaturesPresent ==
    (got # None /\ got.exc = "") =>
        /\ got.val.current.temperature # NoneNum
        /\ got.val.current.feels_like # NoneNum

\* C29: in a call whose attempts all fail, get_weather returns data from the
\* cache exactly when has_cached_data() was true when the call began.
C29_FallbackIffHasCachedData ==
    AllFailed =>
        (IsFallback(got) <=> has_cached_data(cache_before[1]))

\* C28: the cached payload and its timestamp change only together, in the
\* step of an attempt that returned, to that attempt's payload and time; and
\* in every state has_cached_data() is true exactly when get_cache_age() is
\* not None.
C28_ReplacedTogether ==
    /\ [](has_cached_data(_cache) <=> (get_cache_age(_cache_time, now) # NoneNum))
    /\ [][ (_cache' # _cache \/ _cache_time' # _cache_time) =>
              /\ FetchOk' /\ requests' = requests + 1
              /\ _cache' = fetched'.val
              /\ _cache_time' = now' ]_vars

C28_Witness ==
    /\ cycles >= 2
    /\ FetchOk
    /\ cache_before[1] # None
    /\ _cache # cache_before[1]
    /\ _cache_time = now
    /\ _cache_time > cache_before[2]

\* C30: a get_weather call whose request returned a payload leaves exactly
\* that payload in the cache, stamped with the time of the attempt that
\* returned it, whatever was cached before; the cache timestamp never
\* decreases.
C30_SuccessAlwaysReplaces ==
    [][ /\ (FetchOk' /\ calls' = calls + 1) =>
              (_cache' = fetched'.val /\ _cache_time' = now')
        /\ _cache_time' >= _cache_time ]_vars

C30_Witness ==
    /\ calls = 2
    /\ FetchOk
    /\ cache_before[1] # None
    /\ _cache # cache_before[1]
    /\ _cache_time > cache_before[2]
    /\ Len(sleeps) = 2

\* the document of the file loaded, and its section k (Absent if none)
Doc == IF config_file.exists /\ config_file.read = "ok" THEN config_file.data ELSE Null
Section(k) == IF Doc.t = "map" /\ k \in DOMAIN Doc.m THEN Doc.m[k] ELSE Absent
\* field k of a section has a value of another type than one of `types`
WrongField(sec, k, types) == sec.t = "map" /\ k \in DOMAIN sec.m /\ sec.m[k].t \notin types
\* the file holds a value of the wrong type somewhere
WrongType ==
    \/ Doc.t \notin {"map", "null"}
    \/ \E k \in SectionNames : Section(k).t \notin {"map", "null", "absent"}
    \/ WrongField(Section("location"), "latitude", {"int", "null"})
    \/ WrongField(Section("location"), "longitude", {"int", "null"})
    \/ WrongField(Section("location"), "name", {"str"})
    \/ WrongField(Section("display"), "theme", {"str"})
    \/ WrongField(Section("display"), "temperature_unit", {"str"})
    \/ WrongField(Section("refresh"), "weather_interval", {"int"})
    \/ WrongField(Section("refresh"), "forecast_timeout", {"int"})
    \/ \E c \in {"main", "secondary_1", "secondary_2"} :
          \/ WrongField(Section("timezones"), c, {"map", "null"})
          \/ /\ Section("timezones").t = "map"
             /\ c \in DOMAIN Section("timezones").m
             /\ WrongField(Section("timezones").m[c], "timezone", {"str"})

\* C26: load_config never raises; for a missing, unreadable, invalid or
\* empty file, and for a file holding a value of the wrong type, it returns
\* the default AppConfig; whatever it returns has weather_interval >= 300
\* and 5 <= forecast_timeout <= 300.
C26_LoadFallsBackToDefaults ==
    loaded # None =>
        /\ loaded.exc = ""
        /\ (~config_file.exists \/ config_file.read # "ok" \/ Doc = Null) =>
              loaded.val = AppConfig
        /\ WrongType => loaded.val = AppConfig
        /\ loaded.val.refresh.weather_interval >= 300
        /\ loaded.val.refresh.forecast_timeout >= 5
        /\ loaded.val.refresh.forecast_timeout <= 300

\* C25: stop() does not wait for a fetch in flight: whenever _update_weather
\* is inside _make_request (requesting or sleeping), stop() can run, so that
\* the result of that fetch arrives after the stop and is dropped.
C25_StopDoesNotWait ==
    pc \in {"request", "sleep"} => ENABLED stop

\* C27 as stated: the delay list has MAX_RETRIES - 1 entries and every sleep
\* of a fetch takes the entry of its attempt.
C27_DelayListLength ==
    /\ Len(RETRY_DELAYS) = MAX_RETRIES - 1
    /\ \A i \in 1..Len(sleeps) : i <= Len(RETRY_DELAYS) /\ sleeps[i] = RETRY_DELAYS[i]

\* C27 amended: the delay list has MAX_RETRIES entries; a fetch sleeps at most
\* MAX_RETRIES - 1 times, its i-th sleep taking the i-th entry, so the index
\* is always in range and the last entry (45) is never used.
C27_LastDelayNeverUsed ==
    /\ Len(RETRY_DELAYS) = MAX_RETRIES
    /\ Len(sleeps) <= MAX_RETRIES - 1
    /\ \A i \in 1..Len(sleeps) :
          /\ i <= Len(RETRY_DELAYS)
          /\ sleeps[i] = RETRY_DELAYS[i]
          /\ sleeps[i] # RETRY_DELAYS[Len(RETRY_DELAYS)]
    /\ pc = "sleep" => attempt + 1 <= MAX_RETRIES - 1

C27_Witness == AllFailed /\ sleeps = <<5, 15>> /\ cycles = 1 /\ requests = MAX_RETRIES

C33_LookupNotRetried ==
    /\ [](lookups \in {0, 1})
    /\ [][(cycles' = cycles + 1 /\ weather_service' = None) =>
              /\ lookups' = 1
              /\ pc' = "mainloop"
              /\ requests' = 0
              /\ result' = None
              /\ weather_data' = weather_data
              /\ \E u \in timers' : u.id = _weather_update_job' /\ u.due > now']_vars
    /\ [][(weather_service # None) =>
              /\ weather_service' = weather_service
              /\ cycles' # cycles => lookups' = 0]_vars

C33_Witness ==
    /\ cycles = 2
    /\ lookups = 1
    /\ weather_service = None
    /\ pc = "mainloop"
    /\ \E u \in timers : u.id = _weather_update_job

\* C36: get_location returns the configured coordinates whenever both are
\* set, with no detection call and the cached location left alone; otherwise
\* it returns the cached location, again with no detection call; only with
\* neither does it make one detection call, whose answer it returns, and a
\* detection that found nothing leaves the cached location as it was.
C36_LocationPrecedence ==
    location_args # None =>
        LET a == location_args
            configured == a.config_lat # NoneNum /\ a.config_lon # NoneNum
        IN
        /\ configured =>
              /\ located # None
              /\ located.latitude = a.config_lat
              /\ located.longitude = a.config_lon
              /\ detections = 0
              /\ _cached_location = a.cached
        /\ (~configured /\ a.cached # None) =>
              /\ located = a.cached
              /\ detections = 0
              /\ _cached_location = a.cached
        /\ (~configured /\ a.cached = None) =>
              /\ detections = 1
              /\ located = a.detected
              /\ _cached_location = a.detected

\* configured coordinates win over a location detected by an earlier call
C36_Witness ==
    /\ location_args # None
    /\ location_args.cached # None
    /\ location_args.config_lat = 0
    /\ location_args.config_lon = 0 - 74
    /\ located # None
    /\ located.latitude = 0
    /\ detections = 0

WeatherTimers == {t \in timers : t.cb = "_update_weather"}

\* C32: refresh timers never stack, and every _update_weather invocation
\* arms exactly one: at most one _update_weather callback is pending at any
\* time, and exactly one whenever an invocation has returned to the main loop.
C32_OneTimerPerInvocation ==
    /\ Cardinality(WeatherTimers) <= 1
    /\ (pc = "mainloop" /\ cycles > 0) => Cardinality(WeatherTimers) = 1

\* C34: whenever the main view is the current view and no cycle is running,
\* its cards show the weather_data the application holds.
C34_MainViewShowsLatest ==
    (pc = "mainloop" /\ _current_view = "main" /\ weather_data # None) =>
        main_shown = weather_data

====
